---- MODULE Spec2Model ----
(***************************************************************************)
(* Model of backend/server.js: the workout-logging service.  The state is  *)
(* the PostgreSQL store (users, workouts and their SERIAL sequences), the  *)
(* startup position (pool.connect callback, createTables, app.listen), the *)
(* wall clock that jwt.sign / jwt.verify read, the tokens issued so far    *)
(* and the exchange (request and response) whose response is on its way.   *)
(*                                                                         *)
(* Every handler issues at most one statement against the store and that   *)
(* statement is its only access to shared state, so a handler is one       *)
(* atomic step taken at its statement: any interleaving of concurrent      *)
(* requests is a serial order of these steps.  The model looks at one      *)
(* exchange at a time: a step is taken when the response of the one before *)
(* has been delivered, which no handler reads.                             *)
(*                                                                         *)
(* The created_at columns (DEFAULT CURRENT_TIMESTAMP) are never read by a  *)
(* handler except to be echoed; they are left out of the rows.             *)
(***************************************************************************)
EXTENDS Integers, Sequences, FiniteSets, TLC

VARIABLES connState, tables, listening,
          users, userSeq, workouts, workoutSeq,
          clock, issued, last, okDeletes

vars == <<connState, tables, listening, users, userSeq, workouts,
          workoutSeq, clock, issued, last, okDeletes>>

storeVars == <<users, userSeq, workouts, workoutSeq>>
startupVars == <<connState, tables, listening>>

-----------------------------------------------------------------------------
(* Bounds of the model *)

\* INSERT statements against users that the model lets reach the store
MaxUserSeq == 2
\* INSERT statements against workouts that the model lets reach the store
MaxWorkoutSeq == 2
\* last day of the wall clock
MaxClock == 7

(* Program constants *)

\* expiresIn: '7d', in days
TokenTTL == 7
\* bcrypt.hash(password, 10)
BcryptCost == 10
\* username VARCHAR(50)
UsernameWidth == 50
\* email VARCHAR(100)
EmailWidth == 100
\* exercise_id VARCHAR(100)
ExerciseIdWidth == 100
\* exercise_name VARCHAR(100)
ExerciseNameWidth == 100
\* workout_timestamp VARCHAR(50)
TimestampWidth == 50
JWT_SECRET == "process.env.JWT_SECRET"

-----------------------------------------------------------------------------
(* JavaScript values of request bodies and responses *)

Undef == [t |-> "undefined"]
Str(s) == [t |-> "string", v |-> s]
Arr(items) == [t |-> "array", items |-> items]

\* !x is FALSE: undefined and the empty string are falsy, arrays are truthy
Truthy(x) ==
  CASE x.t = "undefined" -> FALSE
    [] x.t = "string" -> Len(x.v) > 0
    [] OTHER -> TRUE

\* Array.isArray(x)
IsArray(x) == x.t = "array"

(* Values of the store *)

Null == [t |-> "null"]
Text(s) == [t |-> "text", v |-> s]

\* node-postgres prepareValue: undefined is sent as NULL, a string as text
ToParam(x) == IF x.t = "string" THEN Text(x.v) ELSE Null

\* node-postgres hands a text column back as a string
FromText(x) == IF x.t = "text" THEN Str(x.v) ELSE Undef

\* a VARCHAR(n) column refuses a longer value (SQLSTATE 22001)
TooLong(p, width) == p.t = "text" /\ Len(p.v) > width

-----------------------------------------------------------------------------
(* Credential service: bcryptjs and jsonwebtoken *)

\* bcrypt.hash(password, 10): a one-way hash of the password string
BcryptHash(password) == <<"$2a$", BcryptCost, password.v>>

\* bcrypt.hash / bcrypt.compare reject a non-string with "Illegal arguments"
BcryptThrows(password) == password.t # "string"

\* bcrypt.compare(password, user.password_hash)
BcryptCompare(password, hash) == hash = BcryptHash(password)

\* the HS256 signature of a payload under a key
Hmac(payload, key) == <<"HS256", key, payload>>

\* jwt.sign({ userId }, process.env.JWT_SECRET, { expiresIn: '7d' })
JwtSign(userId) ==
  LET payload == [userId |-> userId, iat |-> clock, exp |-> clock + TokenTTL]
  IN  [t |-> "jwt", payload |-> payload, sig |-> Hmac(payload, JWT_SECRET)]

\* jwt.verify with the expiry never looked at
JwtVerifyNoExpiry(token) ==
  /\ token.t = "jwt"
  /\ token.sig = Hmac(token.payload, JWT_SECRET)

\* jwt.verify(token, process.env.JWT_SECRET) returns the payload (TRUE) or
\* throws (FALSE): a string that is no token, a signature that is not the
\* payload's under the secret, or a clock at or past exp
JwtVerify(token) ==
  /\ token.t = "jwt"
  /\ token.sig = Hmac(token.payload, JWT_SECRET)
  /\ clock < token.payload.exp

\* req.headers.authorization?.split(' ')[1]: the header is the sequence of
\* its space-separated parts, <<>> when the header is absent
HeaderToken(hdr) == IF Len(hdr) >= 2 THEN hdr[2] ELSE Undef

\* authMiddleware: the response it sends, or next() with req.userId set
AuthGate(hdr) ==
  LET token == HeaderToken(hdr) IN
  IF ~Truthy(token)
  THEN [next |-> FALSE, status |-> 401, error |-> "No token provided", userId |-> 0]
  ELSE IF JwtVerify(token)
  THEN [next |-> TRUE, status |-> 0, error |-> "", userId |-> token.payload.userId]
  ELSE [next |-> FALSE, status |-> 401, error |-> "Invalid token", userId |-> 0]

-----------------------------------------------------------------------------
(* The sets payload: JSON.stringify on the way in, JSONB on the way out *)

RECURSIVE JSONStringify(_)
\* JSON.stringify(sets): the text of an array of set records, as the
\* sequence of its numbers in order
JSONStringify(items) ==
  IF items = <<>> THEN <<>>
  ELSE <<Head(items).reps, Head(items).weight>> \o JSONStringify(Tail(items))

\* the JSONB column parsed back by node-postgres into an array of records
JsonbParse(text) ==
  Arr([i \in 1..(Len(text) \div 2) |->
         [reps |-> text[2 * i - 1], weight |-> text[2 * i]]])

-----------------------------------------------------------------------------
(* The store *)

\* what the store answers to any statement before looking at the rows:
\* 42P01 (undefined table) while createTables has not created the tables.
\* The store itself is taken to be reachable whenever a handler queries it.
StoreFault == IF ~tables THEN "42P01" ELSE "ok"

\* INSERT INTO users (username, email, password_hash) ... : the SQLSTATE it
\* ends with.  The VARCHAR(n) coercion of a value comes before the NOT NULL
\* and UNIQUE checks of the row.
InsertUserCode(username, email, hash) ==
  IF StoreFault # "ok" THEN StoreFault
  ELSE IF TooLong(username, UsernameWidth) \/ TooLong(email, EmailWidth) THEN "22001"
  ELSE IF username = Null \/ email = Null THEN "23502"
  ELSE IF \E u \in users : u.username = username.v \/ u.email = email.v THEN "23505"
  ELSE "ok"

\* SELECT * FROM users WHERE email = $1 (no row matches NULL)
UsersByEmail(email) == {u \in users : email.t = "text" /\ u.email = email.v}

\* INSERT INTO workouts (user_id, exercise_id, exercise_name, sets_data,
\* workout_timestamp) ... : the SQLSTATE it ends with
InsertWorkoutCode(userId, exerciseId, exerciseName, timestamp) ==
  IF StoreFault # "ok" THEN StoreFault
  ELSE IF \/ TooLong(exerciseId, ExerciseIdWidth)
          \/ TooLong(exerciseName, ExerciseNameWidth)
          \/ TooLong(timestamp, TimestampWidth) THEN "22001"
  ELSE IF exerciseId = Null \/ exerciseName = Null \/ timestamp = Null THEN "23502"
  ELSE IF ~(\E u \in users : u.id = userId) THEN "23503"
  ELSE "ok"

\* a row of workouts as node-postgres returns it (RETURNING *, SELECT *)
RowToJs(w) ==
  [id |-> w.id, user_id |-> w.user_id,
   exercise_id |-> FromText(w.exercise_id),
   exercise_name |-> FromText(w.exercise_name),
   sets_data |-> JsonbParse(w.sets_data),
   workout_timestamp |-> FromText(w.workout_timestamp)]

\* the WHERE clause left out
OwnedByAnyone(userId) == workouts

\* WHERE user_id = $1
OwnedBy(userId) == {w \in workouts : w.user_id = userId}

\* The code points of the timestamp strings the requests carry (TLC cannot
\* index a string)
CodePoints(s) ==
  CASE s = "9:00" -> <<57, 58, 48, 48>>
    [] s = "10:00" -> <<49, 48, 58, 48, 48>>
    [] s = "10:30" -> <<49, 48, 58, 51, 48>>
    [] OTHER -> <<>>

RECURSIVE SeqLess(_, _)
\* a < b for two sequences of code points, compared left to right
SeqLess(a, b) ==
  IF a = <<>> THEN b # <<>>
  ELSE IF b = <<>> THEN FALSE
  ELSE IF Head(a) = Head(b) THEN SeqLess(Tail(a), Tail(b))
  ELSE Head(a) < Head(b)

\* the minutes since midnight a timestamp string denotes
Minutes(s) ==
  CASE s = "9:00" -> 540
    [] s = "10:00" -> 600
    [] s = "10:30" -> 630
    [] OTHER -> 0

\* the order of the times the strings denote instead of string order
TextLessAsTimes(a, b) == Minutes(a.v) < Minutes(b.v)

\* the store's order of two VARCHAR values: string order
TextLess(a, b) == SeqLess(CodePoints(a.v), CodePoints(b.v))

\* ORDER BY workout_timestamp DESC: no row comes before one with a greater
\* timestamp; rows with equal timestamps come in either order
OrderedDesc(rows) ==
  \A i \in 1..Len(rows), j \in 1..Len(rows) :
     i < j => ~TextLess(rows[i].workout_timestamp, rows[j].workout_timestamp)

\* every sequence that holds each row of a set once
Enumerations(S) ==
  {f \in [1..Cardinality(S) -> S] : \A i, j \in 1..Cardinality(S) : f[i] = f[j] => i = j}

\* SELECT * FROM workouts WHERE user_id = $1 ORDER BY workout_timestamp DESC:
\* the results the store may give
SelectWorkouts(userId) == {rows \in Enumerations(OwnedBy(userId)) : OrderedDesc(rows)}

\* The decimal numerals of the ids the requests name (TLC cannot read the
\* digits of a string)
Numerals == <<"1", "2", "3", "4", "5", "6">>

\* The store reading the text of $1 as a value of the integer column id:
\* the number it spells, or the SQLSTATE of the refusal (22P02: not a
\* number; 22003: outside the 32-bit range of SERIAL)
Int4In(text) ==
  IF \E i \in 1..Len(Numerals) : Numerals[i] = text
  THEN [code |-> "ok", v |-> CHOOSE i \in 1..Len(Numerals) : Numerals[i] = text]
  ELSE IF text = "2147483648" THEN [code |-> "22003", v |-> 0]
  ELSE [code |-> "22P02", v |-> 0]

\* DELETE FROM workouts WHERE id = $1 AND user_id = $2: the SQLSTATE
DeleteCode(id) ==
  IF StoreFault # "ok" THEN StoreFault
  ELSE Int4In(id).code

\* the id left out of the WHERE clause
DeleteTargetsOfUser(id, userId) == {w \in workouts : w.user_id = userId}

\* DELETE FROM workouts WHERE id = $1 AND user_id = $2 RETURNING *: the rows
\* it deletes
DeleteTargets(id, userId) ==
  {w \in workouts : w.id = Int4In(id).v /\ w.user_id = userId}

-----------------------------------------------------------------------------
(* The handlers: the response of each, and the statement it issued.  stmt is
   "none" when the handler issued no statement, else the statement's SQLSTATE
   ("ok" when it ran). *)

Reply(status, body, stmt) == [status |-> status, body |-> body, stmt |-> stmt]

Failure(status, message, stmt) == Reply(status, [error |-> message], stmt)

\* the record of a request and its response; uid is req.userId (0: not set)
Exchange(op, hdr, body, id, uid, reply) ==
  [op |-> op, hdr |-> hdr, body |-> body, id |-> id, uid |-> uid,
   status |-> reply.status, res |-> reply.body, stmt |-> reply.stmt]

NoBody == [none |-> TRUE]

NoExchange == Exchange("none", <<>>, NoBody, "", 0, Reply(0, NoBody, "none"))

\* no response is on its way
Idle == last = NoExchange

\* the tokens issued so far, with the one a response carries
Issue(reply) == IF reply.status = 200 THEN issued \cup {reply.body.token} ELSE issued

\* app.post('/api/auth/register')
RegisterReply(body) ==
  IF ~Truthy(body.username) \/ ~Truthy(body.email) \/ ~Truthy(body.password)
  THEN Failure(400, "All fields are required", "none")
  ELSE IF BcryptThrows(body.password)
  THEN Failure(500, "Registration failed", "none")
  ELSE LET code == InsertUserCode(ToParam(body.username), ToParam(body.email),
                                  BcryptHash(body.password))
       IN  IF code = "ok"
           THEN Reply(200, [token |-> JwtSign(userSeq + 1),
                            user |-> [id |-> userSeq + 1,
                                      username |-> FromText(ToParam(body.username)),
                                      email |-> FromText(ToParam(body.email))]], "ok")
           ELSE IF code = "23505"
           THEN Failure(400, "Username or email already exists", code)
           ELSE Failure(500, "Registration failed", code)

\* the row the INSERT of a register request adds when it runs
NewUser(body) ==
  [id |-> userSeq + 1, username |-> body.username.v, email |-> body.email.v,
   password_hash |-> BcryptHash(body.password)]

\* whether a statement took a value of its table's SERIAL sequence: every
\* INSERT that the store executes does, also one that then fails
TakesId(reply) == reply.stmt \notin {"none", "42P01"}

Register(body) ==
  /\ listening /\ Idle
  /\ LET reply == RegisterReply(body) IN
       /\ TakesId(reply) => userSeq < MaxUserSeq
       /\ users' = IF reply.stmt = "ok" THEN users \cup {NewUser(body)} ELSE users
       /\ userSeq' = IF TakesId(reply) THEN userSeq + 1 ELSE userSeq
       /\ issued' = Issue(reply)
       /\ last' = Exchange("register", <<>>, body, "", 0, reply)
  /\ UNCHANGED <<startupVars, workouts, workoutSeq, clock, okDeletes>>

\* app.post('/api/auth/login')
LoginReply(body) ==
  IF StoreFault # "ok" THEN Failure(500, "Login failed", StoreFault)
  ELSE LET rows == UsersByEmail(ToParam(body.email)) IN
       IF rows = {} THEN Failure(401, "Invalid credentials", "ok")
       ELSE LET user == CHOOSE u \in rows : TRUE IN
            IF BcryptThrows(body.password) THEN Failure(500, "Login failed", "ok")
            ELSE IF ~BcryptCompare(body.password, user.password_hash)
            THEN Failure(401, "Invalid credentials", "ok")
            ELSE Reply(200, [token |-> JwtSign(user.id),
                             user |-> [id |-> user.id,
                                       username |-> Str(user.username),
                                       email |-> Str(user.email)]], "ok")

Login(body) ==
  /\ listening /\ Idle
  /\ LET reply == LoginReply(body) IN
       /\ issued' = Issue(reply)
       /\ last' = Exchange("login", <<>>, body, "", 0, reply)
  /\ UNCHANGED <<startupVars, storeVars, clock, okDeletes>>

\* app.get('/api/workouts'): the responses it may send
ListReplies(hdr) ==
  LET gate == AuthGate(hdr) IN
  IF ~gate.next THEN {Failure(gate.status, gate.error, "none")}
  ELSE IF StoreFault # "ok" THEN {Failure(500, "Failed to fetch workouts", StoreFault)}
  ELSE {Reply(200, [workouts |-> [i \in 1..Len(rows) |-> RowToJs(rows[i])]], "ok") :
          rows \in SelectWorkouts(gate.userId)}

ListWorkouts(hdr) ==
  /\ listening /\ Idle
  /\ \E reply \in ListReplies(hdr) :
       last' = Exchange("list", hdr, NoBody, "", AuthGate(hdr).userId, reply)
  /\ UNCHANGED <<startupVars, storeVars, clock, issued, okDeletes>>

\* the row with the server's time in place of the caller's timestamp
NewWorkoutServerTime(userId, body) ==
  [id |-> workoutSeq + 1, user_id |-> userId,
   exercise_id |-> ToParam(body.exercise_id),
   exercise_name |-> ToParam(body.exercise_name),
   sets_data |-> JSONStringify(body.sets.items),
   workout_timestamp |-> Text("0:00")]

\* the row with another owner than req.userId
NewWorkoutOtherOwner(userId, body) ==
  [id |-> workoutSeq + 1, user_id |-> userId + 1,
   exercise_id |-> ToParam(body.exercise_id),
   exercise_name |-> ToParam(body.exercise_name),
   sets_data |-> JSONStringify(body.sets.items),
   workout_timestamp |-> ToParam(body.workout_timestamp)]

\* the row the INSERT of a create request adds when it runs
NewWorkout(userId, body) ==
  [id |-> workoutSeq + 1, user_id |-> userId,
   exercise_id |-> ToParam(body.exercise_id),
   exercise_name |-> ToParam(body.exercise_name),
   sets_data |-> JSONStringify(body.sets.items),
   workout_timestamp |-> ToParam(body.workout_timestamp)]

\* app.post('/api/workouts')
CreateReply(hdr, body) ==
  LET gate == AuthGate(hdr) IN
  IF ~gate.next THEN Failure(gate.status, gate.error, "none")
  ELSE IF \/ ~Truthy(body.exercise_id) \/ ~Truthy(body.exercise_name)
          \/ ~Truthy(body.sets) \/ ~IsArray(body.sets)
  THEN Failure(400, "Invalid workout data", "none")
  ELSE LET code == InsertWorkoutCode(gate.userId, ToParam(body.exercise_id),
                                     ToParam(body.exercise_name),
                                     ToParam(body.workout_timestamp))
       IN  IF code = "ok"
           THEN Reply(200, [workout |-> RowToJs(NewWorkout(gate.userId, body))], "ok")
           ELSE Failure(500, "Failed to add workout", code)

CreateWorkout(hdr, body) ==
  /\ listening /\ Idle
  /\ LET reply == CreateReply(hdr, body)
         uid == AuthGate(hdr).userId
     IN
       /\ TakesId(reply) => workoutSeq < MaxWorkoutSeq
       /\ workouts' = IF reply.stmt = "ok"
                      THEN workouts \cup {NewWorkout(uid, body)} ELSE workouts
       /\ workoutSeq' = IF TakesId(reply) THEN workoutSeq + 1 ELSE workoutSeq
       /\ last' = Exchange("create", hdr, body, "", uid, reply)
  /\ UNCHANGED <<startupVars, users, userSeq, clock, issued, okDeletes>>

\* the handler without its check of result.rows.length
DeleteReplyAlwaysOk(hdr, id) ==
  LET gate == AuthGate(hdr) IN
  IF ~gate.next THEN Failure(gate.status, gate.error, "none")
  ELSE IF DeleteCode(id) # "ok"
  THEN Failure(500, "Failed to delete workout", DeleteCode(id))
  ELSE Reply(200, [message |-> "Workout deleted"], "ok")

\* app.delete('/api/workouts/:id'); id is the text of req.params.id
DeleteReply(hdr, id) ==
  LET gate == AuthGate(hdr) IN
  IF ~gate.next THEN Failure(gate.status, gate.error, "none")
  ELSE IF DeleteCode(id) # "ok"
  THEN Failure(500, "Failed to delete workout", DeleteCode(id))
  ELSE IF DeleteTargets(id, gate.userId) = {}
  THEN Failure(404, "Workout not found", "ok")
  ELSE Reply(200, [message |-> "Workout deleted"], "ok")

DeleteWorkout(hdr, id) ==
  /\ listening /\ Idle
  /\ LET reply == DeleteReply(hdr, id)
         uid == AuthGate(hdr).userId
     IN
       /\ workouts' = IF reply.stmt = "ok"
                      THEN workouts \ DeleteTargets(id, uid) ELSE workouts
       /\ okDeletes' = IF reply.status = 200
                       THEN okDeletes \o <<Int4In(id).v>> ELSE okDeletes
       /\ last' = Exchange("delete", hdr, NoBody, id, uid, reply)
  /\ UNCHANGED <<startupVars, users, userSeq, workoutSeq, clock, issued>>

\* the response reaches its client
Deliver ==
  /\ ~Idle
  /\ last' = NoExchange
  /\ UNCHANGED <<startupVars, storeVars, clock, issued, okDeletes>>

-----------------------------------------------------------------------------
(* Startup: pool.connect's callback, createTables and app.listen are three
   asynchronous completions; the module's top level starts all of them and
   waits for none. *)

\* pool.connect((err) => ...) with no error: createTables() is called and
\* its query is on its way
ConnectOk ==
  /\ Idle
  /\ connState = "pending"
  /\ connState' = "connected"
  /\ UNCHANGED <<tables, listening, storeVars, clock, issued, last, okDeletes>>

\* pool.connect((err) => ...) with an error (the store was not yet up):
\* logged, createTables never runs, the service goes on
ConnectError ==
  /\ Idle
  /\ connState = "pending"
  /\ connState' = "failed"
  /\ UNCHANGED <<tables, listening, storeVars, clock, issued, last, okDeletes>>

\* createTables: the two CREATE TABLE IF NOT EXISTS statements, sent as one
\* query, which the store runs as one transaction
CreateTables ==
  /\ Idle
  /\ connState = "connected" /\ ~tables
  /\ tables' = TRUE
  /\ UNCHANGED <<connState, listening, storeVars, clock, issued, last, okDeletes>>

\* app.listen(PORT, '0.0.0.0', ...): requests are accepted from here on
Listen ==
  /\ Idle
  /\ ~listening
  /\ listening' = TRUE
  /\ UNCHANGED <<connState, tables, storeVars, clock, issued, last, okDeletes>>

\* days by which the model lets the wall clock advance in one step
TickDays == {TokenTTL - 1, TokenTTL}

\* time passes
Tick(days) ==
  /\ Idle
  /\ clock + days <= MaxClock
  /\ clock' = clock + days
  /\ UNCHANGED <<startupVars, storeVars, issued, last, okDeletes>>

-----------------------------------------------------------------------------
(* The requests the clients send *)

\* strings of 51 and of 101 characters: one more than a VARCHAR(50) and a
\* VARCHAR(100) column hold
Chars51 == "uuuuuuuuuuuuuuuuuuuuuuuuuuuuuuuuuuuuuuuuuuuuuuuuuuu"
Chars101 == "vvvvvvvvvvvvvvvvvvvvvvvvvvvvvvvvvvvvvvvvvvvvvvvvvvvvvvvvvvvvvvvvvvvvvvvvvvvvvvvvvvvvvvvvvvvvvvvvvvvvv"

Alice == Str("alice")
Bob == Str("bob")
EmailA == Str("a@x.com")
EmailB == Str("b@x.com")
Password == Str("pw123456")
WrongPassword == Str("letmein")

RegisterBody(u, e, p) == [username |-> u, email |-> e, password |-> p]

\* two users, and a request with a field missing
FewRegisterBodies ==
  {RegisterBody(Alice, EmailA, Password), RegisterBody(Bob, EmailB, Password),
   RegisterBody(Alice, EmailB, Undef)}

\* every pairing of two usernames with two emails, a missing field of each
\* kind, an empty field, and a username and an email too long for the column
RegisterBodies ==
  {RegisterBody(u, e, Password) : u \in {Alice, Bob}, e \in {EmailA, EmailB}}
    \cup {RegisterBody(Undef, EmailA, Password),
          RegisterBody(Alice, Undef, Password),
          RegisterBody(Alice, EmailA, Undef),
          RegisterBody(Str(""), EmailB, Password),
          RegisterBody(Str(Chars51), EmailB, Password),
          RegisterBody(Bob, Str(Chars101), Password)}

LoginBody(e, p) == [email |-> e, password |-> p]

FewLoginBodies == {LoginBody(EmailA, Password), LoginBody(EmailB, WrongPassword)}

LoginBodies ==
  {LoginBody(e, p) : e \in {EmailA, EmailB}, p \in {Password, WrongPassword, Undef}}
    \cup {LoginBody(Undef, Password), LoginBody(Undef, Undef)}

\* a token whose payload names another user under the old signature, one
\* whose payload has a later expiry under the old signature, and one signed
\* with a key that is not the secret
Forgeries(token) ==
  {[token EXCEPT !.payload.userId = IF @ = 1 THEN 2 ELSE 1],
   [token EXCEPT !.payload.exp = @ + TokenTTL],
   [token EXCEPT !.sig = Hmac(token.payload, "guess")]}

Bearer(token) == <<"Bearer", token>>

\* the authorization headers that carry a token the service issued, and none
PlainHeaders == {<<>>} \cup {Bearer(token) : token \in issued}

\* and: a scheme with no token, a string that is no token, forged tokens
AllHeaders ==
  PlainHeaders
    \cup {<<"Bearer">>, Bearer(Str("not.a.jwt"))}
    \cup {Bearer(forged) : forged \in UNION {Forgeries(token) : token \in issued}}

OneSet == Arr(<<[reps |-> 5, weight |-> 100]>>)

WorkoutBody(i, n, s, ts) ==
  [exercise_id |-> i, exercise_name |-> n, sets |-> s, workout_timestamp |-> ts]

Squat9 == WorkoutBody(Str("squat"), Str("Squat"), OneSet, Str("9:00"))
Bench10 == WorkoutBody(Str("bench"), Str("Bench Press"), Arr(<<>>), Str("10:00"))

ValidWorkoutBodies == {Squat9, Bench10}

\* and: each field missing, an empty exercise_id, sets that is no array,
\* each string too long for its column
WorkoutBodies ==
  ValidWorkoutBodies
    \cup {[Squat9 EXCEPT !.exercise_id = Undef],
          [Squat9 EXCEPT !.exercise_id = Str("")],
          [Squat9 EXCEPT !.exercise_name = Undef],
          [Squat9 EXCEPT !.sets = Undef],
          [Squat9 EXCEPT !.sets = Str("5x5")],
          [Squat9 EXCEPT !.workout_timestamp = Undef],
          [Squat9 EXCEPT !.exercise_id = Str(Chars101)],
          [Squat9 EXCEPT !.exercise_name = Str(Chars101)],
          [Squat9 EXCEPT !.workout_timestamp = Str(Chars51)]}

\* the ids a delete request names: every id the sequence has given, the
\* next one, a number past the 32-bit range and a text that is no number
DeleteIds ==
  {Numerals[i] : i \in 1..(MaxWorkoutSeq + 1)} \cup {"2147483648", "abc"}

-----------------------------------------------------------------------------

Init ==
  /\ connState = "pending"
  /\ tables = FALSE
  /\ listening = FALSE
  /\ users = {}
  /\ userSeq = 0
  /\ workouts = {}
  /\ workoutSeq = 0
  /\ clock = 0
  /\ issued = {}
  /\ last = NoExchange
  /\ okDeletes = <<>>

(* The service under requests that carry the tokens it issued: every workout
   body and every id, two users *)

TimePasses == \E days \in TickDays : Tick(days)

RegisterRequest == \E body \in FewRegisterBodies : Register(body)
LoginRequest == \E body \in FewLoginBodies : Login(body)
ListRequest == \E hdr \in PlainHeaders : ListWorkouts(hdr)
CreateRequest == \E hdr \in PlainHeaders, body \in WorkoutBodies : CreateWorkout(hdr, body)
DeleteRequest == \E hdr \in PlainHeaders, id \in DeleteIds : DeleteWorkout(hdr, id)

Next ==
  \/ ConnectOk
  \/ ConnectError
  \/ CreateTables
  \/ Listen
  \/ TimePasses
  \/ RegisterRequest
  \/ LoginRequest
  \/ ListRequest
  \/ CreateRequest
  \/ DeleteRequest
  \/ Deliver

Spec == Init /\ [][Next]_vars

(* The service under every authorization header, register body and login
   body, with time passing; one workout body and one id *)

AuthRegisterRequest == \E body \in RegisterBodies : Register(body)
AuthLoginRequest == \E body \in LoginBodies : Login(body)
AuthListRequest == \E hdr \in AllHeaders : ListWorkouts(hdr)
AuthCreateRequest == \E hdr \in AllHeaders : CreateWorkout(hdr, Squat9)
AuthDeleteRequest == \E hdr \in AllHeaders : DeleteWorkout(hdr, Numerals[1])

AuthNext ==
  \/ ConnectOk
  \/ ConnectError
  \/ CreateTables
  \/ Listen
  \/ TimePasses
  \/ AuthRegisterRequest
  \/ AuthLoginRequest
  \/ AuthListRequest
  \/ AuthCreateRequest
  \/ AuthDeleteRequest
  \/ Deliver

AuthSpec == Init /\ [][AuthNext]_vars

-----------------------------------------------------------------------------
(* Properties *)

\* a handler has just answered a request of this kind
Answered(op) == Idle /\ last'.op = op

\* the user a header's token names
BearerUser(hdr) == hdr[2].payload.userId

\* the numeral that spells a stored id
Spells(text, id) == id \in 1..Len(Numerals) /\ Numerals[id] = text

\* string order of two JavaScript strings
StrLess(a, b) == SeqLess(CodePoints(a.v), CodePoints(b.v))

\* the entries of a 200 response of list, as a set
Entries(res) == {res.workouts[i] : i \in 1..Len(res.workouts)}

(* C1: a workout created with one user's token belongs to that user; a list
   made with a user's token shows no workout of another user; a delete made
   with a user's token of a workout of another user returns 404 and leaves
   the workout in the store. *)
C1_Isolation ==
  [][\A hdr \in {last'.hdr} :
       (Idle /\ last'.uid # 0) =>
         /\ (last'.op = "create" /\ last'.status = 200) =>
              \E w \in workouts' \ workouts :
                 w.id = last'.res.workout.id /\ w.user_id = BearerUser(hdr)
         /\ (last'.op = "list" /\ last'.status = 200) =>
              \A e \in Entries(last'.res) : \A w \in workouts :
                 w.id = e.id => w.user_id = BearerUser(hdr)
         /\ last'.op = "delete" =>
              \A w \in workouts :
                 (Spells(last'.id, w.id) /\ w.user_id # BearerUser(hdr)) =>
                    /\ last'.status = 404
                    /\ last'.res = [error |-> "Workout not found"]
                    /\ w \in workouts']_vars

\* a delete with one user's token of another user's workout was answered 404
C1_Witness ==
  /\ last.op = "delete" /\ last.uid # 0 /\ last.status = 404
  /\ \E w \in workouts : Spells(last.id, w.id) /\ w.user_id # last.uid

(* C7: a list by an authenticated user is answered 200 with exactly that
   user's workouts, each once, no entry before one with a greater timestamp
   string; with no workouts, with the empty sequence. *)
C7_ListOrdered ==
  (last.op = "list" /\ last.uid # 0) =>
    /\ last.status = 200
    /\ {e.id : e \in Entries(last.res)} = {w.id : w \in OwnedBy(last.uid)}
    /\ \A e \in Entries(last.res) : \E w \in workouts : w.id = e.id /\ RowToJs(w) = e
    /\ Len(last.res.workouts) = Cardinality({w \in workouts : w.user_id = last.uid})
    /\ \A i \in 1..(Len(last.res.workouts) - 1) :
         ~StrLess(last.res.workouts[i].workout_timestamp,
                  last.res.workouts[i + 1].workout_timestamp)

\* a list of two workouts put "9:00" before "10:00": string order, not the
\* order of the times
C7_Witness ==
  /\ last.op = "list" /\ last.status = 200
  /\ Len(last.res.workouts) = 2
  /\ last.res.workouts[1].workout_timestamp = Str("9:00")
  /\ last.res.workouts[2].workout_timestamp = Str("10:00")

(* C9: every workout row's user_id is the id of exactly one user row; no
   step changes or removes a user row; a workout row's fields do not change
   while the row exists. *)
C9_Integrity ==
  /\ [](\A w \in workouts : Cardinality({u \in users : u.id = w.user_id}) = 1)
  /\ [][/\ users \subseteq users'
        /\ \A w \in workouts :
             (\E x \in workouts' : x.id = w.id) => w \in workouts']_vars

\* two users, a workout of the second in the store, and a delete answered 200
C9_Witness ==
  /\ Cardinality(users) = 2
  /\ \E w \in workouts : w.user_id = 2
  /\ okDeletes # <<>>

(* C10: no statement of a handler finds a table missing: both tables exist
   before any handler issues a statement against the store. *)
C10_TablesBeforeStatements == last.stmt # "42P01"

\* the request body of a create names no value, or the empty string
Falsy(x) == x = Undef \/ x = Str("")

\* a string of at most width characters
Fits(x, width) == x.t = "string" /\ Len(x.v) <= width

\* a create has inserted exactly one row, owned by the caller, that holds the
\* submitted fields, and has returned it with 200
Inserted ==
  /\ last'.status = 200
  /\ \E w \in workouts' :
       /\ w \notin workouts /\ workouts' = workouts \cup {w}
       /\ w.user_id = last'.uid
       /\ RowToJs(w) = last'.res.workout
  /\ last'.res.workout.exercise_id = last'.body.exercise_id
  /\ last'.res.workout.exercise_name = last'.body.exercise_name
  /\ last'.res.workout.sets_data = last'.body.sets
  /\ last'.res.workout.workout_timestamp = last'.body.workout_timestamp

\* a request was answered with this error and the store is as it was
Refused(status, message) ==
  /\ last'.status = status
  /\ last'.res = [error |-> message]
  /\ workouts' = workouts /\ users' = users

(* C6, as claimed: an authenticated create is answered 400 'Invalid workout
   data' and inserts nothing if exercise_id, exercise_name or sets is absent
   (an empty value counted as absent) or sets is no sequence; every other one
   inserts exactly one row with the submitted fields and returns it with
   200. *)
C6_Original ==
  [][(Answered("create") /\ last'.uid # 0) =>
       IF \/ Falsy(last'.body.exercise_id) \/ Falsy(last'.body.exercise_name)
          \/ Falsy(last'.body.sets) \/ last'.body.sets.t # "array"
       THEN Refused(400, "Invalid workout data")
       ELSE Inserted]_vars

(* C6, amended: 400 'Invalid workout data' and nothing inserted if
   exercise_id, exercise_name or sets is absent or empty or sets is no
   sequence; otherwise, if exercise_id and exercise_name are strings of at most
   100 characters and workout_timestamp is a string of at most 50, exactly
   one row with the submitted fields is inserted and returned with 200;
   otherwise (workout_timestamp absent, or a string too long for its column)
   500 'Failed to add workout' and nothing inserted. *)
C6_Amended ==
  [][(Answered("create") /\ last'.uid # 0) =>
       IF \/ Falsy(last'.body.exercise_id) \/ Falsy(last'.body.exercise_name)
          \/ Falsy(last'.body.sets) \/ last'.body.sets.t # "array"
       THEN Refused(400, "Invalid workout data")
       ELSE IF /\ Fits(last'.body.exercise_id, ExerciseIdWidth)
               /\ Fits(last'.body.exercise_name, ExerciseNameWidth)
               /\ Fits(last'.body.workout_timestamp, TimestampWidth)
       THEN Inserted
       ELSE Refused(500, "Failed to add workout")]_vars

\* a create with an empty sets array was answered 200 and its row is stored
C6_Witness ==
  /\ last.op = "create" /\ last.status = 200 /\ last.body.sets = Arr(<<>>)
  /\ \E w \in workouts : RowToJs(w) = last.res.workout /\ w.user_id = last.uid

\* the rows a delete is about: the one with the id the text spells, if the
\* caller owns it
Named(text, uid) == {w \in workouts : Spells(text, w.id) /\ w.user_id = uid}

\* no id was deleted with a 200 twice
DeletedOnce == \A i, j \in 1..Len(okDeletes) : okDeletes[i] = okDeletes[j] => i = j

\* a delete has removed exactly the rows of a set and nothing else
Removed(rows) ==
  /\ last'.status = 200
  /\ Cardinality(rows) = 1
  /\ workouts' = workouts \ rows /\ users' = users

(* C8, as claimed: a delete removes exactly the row with that id owned by the
   caller and returns 200; for every other id it returns 404 'Workout not
   found' and leaves the store unchanged; no id gets a 200 twice. *)
C8_Original ==
  /\ []DeletedOnce
  /\ [][(Answered("delete") /\ last'.uid # 0) =>
          IF Named(last'.id, last'.uid) # {}
          THEN Removed(Named(last'.id, last'.uid))
          ELSE Refused(404, "Workout not found")]_vars

(* C8, amended: the 404 is for every other id that spells an integer of the
   32-bit range of the id column; an id that spells none (not a number, or
   out of range) is answered 500 'Failed to delete workout', the store
   unchanged. *)
C8_Amended ==
  /\ []DeletedOnce
  /\ [][(Answered("delete") /\ last'.uid # 0) =>
          IF Named(last'.id, last'.uid) # {}
          THEN Removed(Named(last'.id, last'.uid))
          ELSE IF \E n \in 1..Len(Numerals) : Numerals[n] = last'.id
          THEN Refused(404, "Workout not found")
          ELSE Refused(500, "Failed to delete workout")]_vars

\* a delete was answered 200, another workout is left, and a second delete
\* of the same id was answered 404
C8_Witness ==
  /\ last.op = "delete" /\ last.status = 404 /\ last.uid # 0
  /\ \E i \in 1..Len(okDeletes) : Spells(last.id, okDeletes[i])
  /\ workouts # {}

(* C4: after a create answered 200, every list by the same user holds the
   created workout with the submitted fields; after a delete answered 200,
   every list by the same user holds the entries it held before except the
   one with that id. *)
C4_RoundTrip ==
  [][\A hdr \in {last'.hdr} :
       (Idle /\ last'.uid # 0 /\ last'.status = 200) =>
         /\ last'.op = "create" =>
              \A reply \in ListReplies(hdr)' :
                 /\ reply.status = 200
                 /\ \E e \in Entries(reply.body) :
                      /\ e.id = last'.res.workout.id
                      /\ e.exercise_id = last'.body.exercise_id
                      /\ e.exercise_name = last'.body.exercise_name
                      /\ e.sets_data = last'.body.sets
                      /\ e.workout_timestamp = last'.body.workout_timestamp
         /\ last'.op = "delete" =>
              \A before \in ListReplies(hdr) : \A reply \in ListReplies(hdr)' :
                 /\ reply.status = 200
                 /\ \E e \in Entries(before.body) : Spells(last'.id, e.id)
                 /\ Entries(reply.body) =
                      {e \in Entries(before.body) : ~Spells(last'.id, e.id)}]_vars

\* a delete was answered 200 and the user has another workout left
C4_Witness ==
  /\ last.op = "delete" /\ last.status = 200
  /\ OwnedBy(last.uid) # {}

\* the users a register or login body names by username or by email
SameUsername(body) ==
  {u \in users : body.username.t = "string" /\ u.username = body.username.v}

SameEmail(body) ==
  {u \in users : body.email.t = "string" /\ u.email = body.email.v}

\* no two user rows share a username and no two share an email
UniqueUsers ==
  \A u, v \in users : (u.username = v.username \/ u.email = v.email) => u = v

(* C2: a protected request without a second part in its authorization
   header is answered 401 'No token provided'; one whose token was issued by
   register or login and has not reached its expiry runs the handler as the
   user the token was issued for; every other one is answered 401 'Invalid
   token'; a request answered 401 issued no statement. *)
C2_AuthGate ==
  last.op \in {"list", "create", "delete"} =>
    IF Len(last.hdr) < 2
    THEN /\ last.status = 401 /\ last.res = [error |-> "No token provided"]
         /\ last.stmt = "none" /\ last.uid = 0
    ELSE IF last.hdr[2] \in issued /\ clock < last.hdr[2].payload.exp
    THEN /\ last.status # 401
         /\ last.uid = BearerUser(last.hdr)
         /\ \E u \in users : u.id = last.uid
         /\ last.stmt # "none" \/ last.status = 400
    ELSE /\ last.status = 401 /\ last.res = [error |-> "Invalid token"]
         /\ last.stmt = "none" /\ last.uid = 0

\* a request carried an issued token that has expired and was answered 401
C2_Witness ==
  /\ last.op \in {"list", "create", "delete"} /\ Len(last.hdr) = 2
  /\ last.hdr[2] \in issued /\ clock >= last.hdr[2].payload.exp
  /\ last.status = 401 /\ last.res = [error |-> "Invalid token"]

(* C3: no two user rows share a username or an email; a registration whose
   username or email is used is answered 400 'Username or email already
   exists' and adds no row; one with a fresh username, email and password
   adds exactly one row and returns a token that authenticates as the new
   user's id. *)
C3_Registration ==
  /\ []UniqueUsers
  /\ [][Answered("register") =>
          IF SameUsername(last'.body) \cup SameEmail(last'.body) # {}
          THEN Refused(400, "Username or email already exists")
          ELSE (/\ Truthy(last'.body.username)
                /\ Truthy(last'.body.email)
                /\ Truthy(last'.body.password)) =>
               /\ last'.status = 200
               /\ \E u \in users' : \A token \in {last'.res.token} :
                    /\ u \notin users /\ users' = users \cup {u}
                    /\ u.username = last'.body.username.v
                    /\ u.email = last'.body.email.v
                    /\ AuthGate(Bearer(token))'.next
                    /\ AuthGate(Bearer(token))'.userId = u.id]_vars

(* C5: a login whose email matches a user and whose password does not verify
   against that user's stored hash is answered as one whose email matches no
   user is, 401 'Invalid credentials'; a login with a registered email and
   its password is answered 200 with a token for that user's id. *)
C5_UniformLogin ==
  last.op = "login" =>
    \A u \in SameEmail(last.body) :
      IF last.body.password.t = "string"
           /\ u.password_hash = BcryptHash(last.body.password)
      THEN last.status = 200 /\ last.res.token.payload.userId = u.id
      ELSE last.status = 401 /\ last.res = [error |-> "Invalid credentials"]

====
